---- MODULE Spec2Model ----
(***************************************************************************)
(* Arcow: an atomically reference-counted copy-on-write shared pointer     *)
(* (src/src/lib.rs).  The model has one step per access to the shared      *)
(* reference counter or to the wrapped value, so that every interleaving   *)
(* of clone, deref, deref_mut and drop by several threads is explored.     *)
(* Atomic read-modify-write operations are steps of their own; the work a  *)
(* thread does on memory only it can reach is folded into the next step.   *)
(* The counter is read and updated in one total order (the modification    *)
(* order of the atomic); a handle is used by the thread that owns it only, *)
(* and not at all while the &mut T it lent out is alive.  Addresses are    *)
(* never reused, so that an access to released storage shows in err.       *)
(* The orderings of the atomic operations are kept in hb, which records    *)
(* the accesses to a value that do not happen-before a thread's next step; *)
(* Init leaves that record off, OrderInit turns it on.                     *)
(***************************************************************************)
EXTENDS Integers, FiniteSets, TLC

\* ---- bounds of the model ------------------------------------------------
NumThreads == 2
MaxHandles == 2
MaxAlloc == 2
MaxVal == 1

\* ---- program constants --------------------------------------------------
\* refcount is an AtomicUsize; 16 bits is the narrowest usize Rust has.
USIZE_BITS == 16

Modulus == 2 ^ USIZE_BITS

Threads == 1 .. NumThreads
Handles == 1 .. MaxHandles
Values == 0 .. MaxVal

\* The storage has one address more than the MaxAlloc that operations
\* starting from an empty heap may use: a scenario that starts with an
\* allocation already made has that one besides.
Store == 1 .. (MaxAlloc + 1)

VARIABLES
    astate,       \* per address: "unalloc", "live" (Box exists) or "freed"
    refcount,     \* ArcowInner.refcount of each allocation
    inner,        \* ArcowInner.inner (the wrapped T) of each allocation
    handle,       \* Arcow.inner of each handle slot: an address, 0 = no handle
    owner,        \* the thread that owns each handle, 0 = no handle
    view,         \* the &mut T a handle has lent out, see Views
    pc,           \* per thread: position inside the operation it is running
    cur,          \* per thread: the handle (self) of the running operation
    old_count,    \* per thread: old_count of Drop::drop
    tmp,          \* per thread: the T duplicated by deref_mut, -1 = none
    newp,         \* per thread: the allocation made by Arcow::new in deref_mut
    lol,          \* tests::Udl.lol, the external counter of live T instances
    err,          \* undefined behaviour and panics met so far
    solo,         \* history: per thread, its split ran with no other thread
    clones,       \* history: per allocation, clones completed since new
    hb            \* happens-before record of the accesses to the values

vars == << astate, refcount, inner, handle, owner, view, pc, cur, old_count,
           tmp, newp, lol, err, solo, clones, hb >>

\* the addresses of the heap: an "absent" last one is beyond its end
Addrs == IF astate[MaxAlloc + 1] = "absent" THEN 1 .. MaxAlloc ELSE Store

\* ---- helpers --------------------------------------------------------------
Min(S) == CHOOSE x \in S : \A y \in S : x <= y

FreeSlots == { h \in Handles : handle[h] = 0 }

Unalloc == { a \in Addrs : astate[a] = "unalloc" }

\* handles whose Drop::drop has already taken its reference off the counter
Dropping(h) == \E t \in Threads : pc[t] = "dr_free" /\ cur[t] = h

Live(h) == handle[h] # 0 /\ ~Dropping(h)

HandlesOn(a) == { h \in Handles : Live(h) /\ handle[h] = a }

\* usize arithmetic of fetch_add / fetch_sub: wrapping
WrapAdd_NoCarry(x) == x

WrapAdd_Saturating(x) == IF x = Modulus - 1 THEN x ELSE x + 1

WrapAdd(x) == (x + 1) % Modulus

WrapSub_Leak(x) == x

WrapSub(x) == (x + Modulus - 1) % Modulus

\* A read of released storage is undefined: any value may come back.
LoadRefcount(a) == IF astate[a] = "live" THEN {refcount[a]} ELSE 0 .. MaxHandles

ReadInner(a) == IF astate[a] = "live" THEN {inner[a]} ELSE Values

Touch(a) == IF astate[a] = "live" THEN err ELSE err \cup {"use_after_free"}

\* every step of thread t is a step of another thread for everyone else
Interleave(t, mine) == [u \in Threads |-> IF u = t THEN mine ELSE FALSE]

\* ---- memory orderings ----------------------------------------------------
\* fetch_add(1, Ordering::Acquire) of clone
CloneOrdering == "Acquire"

\* fetch_sub(1, Ordering::Release) of drop
DropOrdering == "Release"

\* load(Ordering::Relaxed) of count
CountOrdering == "Relaxed"

\* what drop does between its fetch_sub and drop(Box::from_raw(..)): nothing
FreeFence == "none"

Acquires(o) == o \in {"Acquire", "AcqRel", "SeqCst"}

Releases(o) == o \in {"Release", "AcqRel", "SeqCst"}

\* hb.pend[a][u] holds the threads that have read or written the value of a
\* by an access that does not happen-before the next step of u; hb.rel[a]
\* holds the threads whose release operations head the release sequence of
\* the counter of a.  The record errs towards ordering (a release covers the
\* later accesses of its thread too), so every race it shows is one.
HbOff == [on |-> FALSE]

HbOn ==
    [on |-> TRUE,
     pend |-> [a \in Store |-> [u \in Threads |-> {}]],
     rel |-> [a \in Store |-> {}]]

\* thread t reads or writes the value of a
Accessed(H, t, a) ==
    [H EXCEPT !.pend[a] =
        [u \in Threads |-> IF u = t THEN @[u] ELSE @[u] \cup {t}]]

\* what thread u has acquired from the release operations of the threads R
Synced(H, R, u) ==
    [H EXCEPT !.pend =
        [a \in Store |->
            [H.pend[a] EXCEPT
                ![u] = { w \in @ : \A t \in R \ {u} :
                                      w # t /\ w \in H.pend[a][t] }]]]

\* an atomic operation of thread t on the counter of a with ordering o
Atomic(H, t, a, o) ==
    LET H1 == IF Acquires(o) THEN Synced(H, H.rel[a], t) ELSE H
    IN  IF Releases(o) THEN [H1 EXCEPT !.rel[a] = @ \cup {t}] ELSE H1

\* the value of a is fresh or gone: nothing is pending on it
Forgotten(H, a) ==
    [H EXCEPT !.pend[a] = [u \in Threads |-> {}], !.rel[a] = {}]

\* the accesses of other threads that a write or a release of the value of a
\* by thread t races with
Racing(H, t, a) == IF hb.on THEN H.pend[a][t] ELSE {}

Track(H) == IF hb.on THEN H ELSE hb

\* "none": no &mut T is out; "inplace" / "split": deref_mut returned one on
\* its count == 1 / count > 1 branch; "-w": a store has gone through it
Views == {"none", "inplace", "split", "inplace-w", "split-w"}

InPlace(h) == view[h] \in {"inplace", "inplace-w"}

Stored(h) == view[h] \in {"inplace-w", "split-w"}

TypeOK ==
    /\ astate \in [Store -> {"unalloc", "live", "freed", "absent"}]
    /\ refcount \in [Store -> 0 .. (Modulus - 1)]
    /\ inner \in [Store -> Values]
    /\ handle \in [Handles -> Addrs \cup {0}]
    /\ owner \in [Handles -> Threads \cup {0}]
    /\ view \in [Handles -> Views]
    /\ pc \in [Threads -> {"idle", "cl_ret", "dm_clone", "dm_new", "dm_sub",
                           "dm_free", "dr_free"}]
    /\ cur \in [Threads -> Handles \cup {0}]
    /\ old_count \in [Threads -> 0 .. (Modulus - 1)]
    /\ tmp \in [Threads -> Values \cup {-1}]
    /\ newp \in [Threads -> Addrs \cup {0}]
    /\ lol \in Nat
    /\ err \subseteq {"use_after_free", "double_free", "panic", "race_free",
                     "race_write"}
    /\ solo \in [Threads -> BOOLEAN]
    /\ clones \in [Store -> -1 .. MaxHandles]
    /\ \/ hb = HbOff
       \/ hb \in [on : {TRUE},
                  pend : [Store -> [Threads -> SUBSET Threads]],
                  rel : [Store -> SUBSET Threads]]

Init ==
    /\ astate = [a \in Store |-> IF a <= MaxAlloc THEN "unalloc" ELSE "absent"]
    /\ refcount = [a \in Store |-> 0]
    /\ inner = [a \in Store |-> 0]
    /\ handle = [h \in Handles |-> 0]
    /\ owner = [h \in Handles |-> 0]
    /\ view = [h \in Handles |-> "none"]
    /\ pc = [t \in Threads |-> "idle"]
    /\ cur = [t \in Threads |-> 0]
    /\ old_count = [t \in Threads |-> 0]
    /\ tmp = [t \in Threads |-> -1]
    /\ newp = [t \in Threads |-> 0]
    /\ lol = 0
    /\ err = {}
    /\ solo = [t \in Threads |-> FALSE]
    /\ clones = [a \in Store |-> -1]
    /\ hb = HbOff

\* the heap has room for the allocations of the splits under way and one more
HeapHasRoom ==
    Cardinality(Unalloc) >
        Cardinality({u \in Threads : pc[u] \in {"dm_clone", "dm_new"}})

\* there is a handle slot for the clones under way and one more
HasFreeSlot ==
    Cardinality(FreeSlots) > Cardinality({u \in Threads : pc[u] = "cl_ret"})

\* ---- Arcow::new ------------------------------------------------------------
\* Box::new(ArcowInner { refcount: AtomicUsize::new(1), inner }) at the next
\* address of the heap; Udl::new has counted the value in lol.
New(t, v) ==
    /\ pc[t] = "idle"
    /\ HasFreeSlot
    /\ HeapHasRoom
    /\ LET h == Min(FreeSlots)
           a == Min(Unalloc)
       IN  /\ astate' = [astate EXCEPT ![a] = "live"]
           /\ refcount' = [refcount EXCEPT ![a] = 1]
           /\ inner' = [inner EXCEPT ![a] = v]
           /\ handle' = [handle EXCEPT ![h] = a]
           /\ owner' = [owner EXCEPT ![h] = t]
           /\ clones' = [clones EXCEPT ![a] = 0]
           /\ hb' = Track(Accessed(Forgotten(hb, a), t, a))
    /\ lol' = lol + 1
    /\ solo' = Interleave(t, FALSE)
    /\ UNCHANGED << view, pc, cur, old_count, tmp, newp, err >>

\* ---- Clone::clone -------------------------------------------------------------
\* self.inner.as_ref().refcount.fetch_add(1, Ordering::Acquire)
CloneFetchAdd(t, h) ==
    /\ pc[t] = "idle"
    /\ owner[h] = t /\ Live(h) /\ view[h] = "none"
    /\ HasFreeSlot
    /\ LET a == handle[h]
       IN  /\ refcount' = IF astate[a] = "live"
                          THEN [refcount EXCEPT ![a] = WrapAdd(refcount[a])]
                          ELSE refcount
           /\ err' = Touch(a)
           /\ hb' = Track(Atomic(hb, t, a, CloneOrdering))
    /\ pc' = [pc EXCEPT ![t] = "cl_ret"]
    /\ cur' = [cur EXCEPT ![t] = h]
    /\ solo' = Interleave(t, FALSE)
    /\ UNCHANGED << astate, inner, handle, owner, view, old_count, tmp, newp,
                    lol, clones >>

\* the pointer the new handle of clone is built from
ClonePointer(h) == handle[h]

\* Arcow { inner: self.inner }
CloneReturn(t) ==
    /\ pc[t] = "cl_ret"
    /\ LET g == Min(FreeSlots)
           a == ClonePointer(cur[t])
       IN  /\ handle' = [handle EXCEPT ![g] = a]
           /\ owner' = [owner EXCEPT ![g] = t]
           /\ clones' = [clones EXCEPT
                           ![a] = IF @ >= 0 /\ @ < MaxHandles THEN @ + 1 ELSE @]
    /\ pc' = [pc EXCEPT ![t] = "idle"]
    /\ cur' = [cur EXCEPT ![t] = 0]
    /\ solo' = Interleave(t, FALSE)
    /\ UNCHANGED << astate, refcount, inner, view, old_count, tmp, newp, lol,
                    err, hb >>

\* ---- Arcow::count ------------------------------------------------------------
\* myself.inner.as_ref().refcount.load(Ordering::Relaxed)
count(h) == LoadRefcount(handle[h])

Count(t, h) ==
    /\ pc[t] = "idle"
    /\ owner[h] = t /\ Live(h) /\ view[h] = "none"
    /\ count(h) # {}
    /\ err' = Touch(handle[h])
    /\ hb' = Track(Atomic(hb, t, handle[h], CountOrdering))
    /\ solo' = Interleave(t, FALSE)
    /\ UNCHANGED << astate, refcount, inner, handle, owner, view, pc, cur,
                    old_count, tmp, newp, lol, clones >>

\* ---- Deref::deref ------------------------------------------------------------
\* &self.inner.as_ref().inner
deref(h) == ReadInner(handle[h])

\* a deref that takes a reference of its own
Deref_Counted(t, h) ==
    /\ pc[t] = "idle"
    /\ owner[h] = t /\ Live(h) /\ view[h] = "none"
    /\ refcount' = [refcount EXCEPT ![handle[h]] = WrapAdd(@)]
    /\ solo' = Interleave(t, FALSE)
    /\ UNCHANGED << astate, inner, handle, owner, view, pc, cur, old_count,
                    tmp, newp, lol, err, clones, hb >>

Deref(t, h) ==
    /\ pc[t] = "idle"
    /\ owner[h] = t /\ Live(h) /\ view[h] = "none"
    /\ deref(h) # {}
    /\ err' = Touch(handle[h])
    /\ hb' = Track(Accessed(hb, t, handle[h]))
    /\ solo' = Interleave(t, FALSE)
    /\ UNCHANGED << astate, refcount, inner, handle, owner, view, pc, cur,
                    old_count, tmp, newp, lol, clones >>

\* ---- Drop::drop --------------------------------------------------------------
\* if old_count == 1
LastReference_NewValue(old) == old = 0

LastReference_Early(old) == old <= 2

LastReference(old) == old = 1

\* drop(Box::from_raw(self.inner.as_ptr())) by thread t: Udl::drop, then
\* the storage
FreeVars(t, a) ==
    /\ astate' = [astate EXCEPT ![a] = "freed"]
    /\ inner' = [inner EXCEPT ![a] = 0]
    /\ lol' = IF lol = 0 THEN 0 ELSE lol - 1
    /\ LET H == Atomic(hb, t, a, FreeFence)
       IN  /\ err' = err
                  \cup (IF astate[a] = "freed" THEN {"double_free"} ELSE {})
                  \cup (IF lol = 0 THEN {"panic"} ELSE {})
                  \cup (IF Racing(H, t, a) # {} THEN {"race_free"} ELSE {})
           /\ hb' = Track(Forgotten(H, a))

\* let old_count = self.inner.as_ref().refcount.fetch_sub(1, Ordering::Release)
DropFetchSub(t, h) ==
    /\ pc[t] = "idle"
    /\ owner[h] = t /\ Live(h) /\ view[h] = "none"
    /\ LET a == handle[h]
       IN  \E old \in LoadRefcount(a) :
             /\ refcount' = IF astate[a] = "live"
                            THEN [refcount EXCEPT ![a] = WrapSub(old)]
                            ELSE refcount
             /\ err' = Touch(a)
             /\ hb' = Track(Atomic(hb, t, a, DropOrdering))
             /\ clones' = [clones EXCEPT ![a] = -1]
             /\ IF LastReference(old)
                THEN /\ pc' = [pc EXCEPT ![t] = "dr_free"]
                     /\ cur' = [cur EXCEPT ![t] = h]
                     /\ old_count' = [old_count EXCEPT ![t] = old]
                     /\ UNCHANGED << handle, owner >>
                ELSE /\ handle' = [handle EXCEPT ![h] = 0]
                     /\ owner' = [owner EXCEPT ![h] = 0]
                     /\ UNCHANGED << pc, cur, old_count >>
    /\ solo' = Interleave(t, FALSE)
    /\ UNCHANGED << astate, inner, view, tmp, newp, lol >>

\* a release that waits until no other thread is inside an operation
DropFree_Locked(t) ==
    /\ pc[t] = "dr_free"
    /\ \A u \in Threads \ {t} : pc[u] = "idle"
    /\ FreeVars(t, handle[cur[t]])
    /\ handle' = [handle EXCEPT ![cur[t]] = 0]
    /\ owner' = [owner EXCEPT ![cur[t]] = 0]
    /\ pc' = [pc EXCEPT ![t] = "idle"]
    /\ cur' = [cur EXCEPT ![t] = 0]
    /\ old_count' = [old_count EXCEPT ![t] = 0]
    /\ solo' = Interleave(t, FALSE)
    /\ UNCHANGED << refcount, view, tmp, newp, clones >>

DropFree(t) ==
    /\ pc[t] = "dr_free"
    /\ FreeVars(t, handle[cur[t]])
    /\ handle' = [handle EXCEPT ![cur[t]] = 0]
    /\ owner' = [owner EXCEPT ![cur[t]] = 0]
    /\ pc' = [pc EXCEPT ![t] = "idle"]
    /\ cur' = [cur EXCEPT ![t] = 0]
    /\ old_count' = [old_count EXCEPT ![t] = 0]
    /\ solo' = Interleave(t, FALSE)
    /\ UNCHANGED << refcount, view, tmp, newp, clones >>

\* ---- DerefMut::deref_mut ------------------------------------------------------
\* if Arcow::count(self) > 1
IsShared_OffByOne(c) == c > 2

IsShared_Inclusive(c) == c >= 1

IsShared(c) == c > 1

\* Reads the count; a unique handle lends &mut self.inner.as_mut().inner at
\* once, a shared one starts the split.
DerefMut(t, h) ==
    /\ pc[t] = "idle"
    /\ owner[h] = t /\ Live(h) /\ view[h] = "none"
    /\ \E c \in count(h) :
         IF IsShared(c)
         THEN /\ HeapHasRoom
              /\ pc' = [pc EXCEPT ![t] = "dm_clone"]
              /\ cur' = [cur EXCEPT ![t] = h]
              /\ solo' = Interleave(t, \A u \in Threads \ {t} : pc[u] = "idle")
              /\ view' = view
         ELSE /\ view' = [view EXCEPT ![h] = "inplace"]
              /\ solo' = Interleave(t, FALSE)
              /\ UNCHANGED << pc, cur >>
    /\ err' = Touch(handle[h])
    /\ hb' = Track(Atomic(hb, t, handle[h], CountOrdering))
    /\ clones' = [clones EXCEPT ![handle[h]] = -1]
    /\ UNCHANGED << astate, refcount, inner, handle, owner, old_count, tmp,
                    newp, lol >>

\* self.inner.as_ref().inner.clone(): Udl::clone counts the duplicate in lol
DerefMutClone(t) ==
    /\ pc[t] = "dm_clone"
    /\ \E v \in ReadInner(handle[cur[t]]) : tmp' = [tmp EXCEPT ![t] = v]
    /\ err' = Touch(handle[cur[t]])
    /\ hb' = Track(Accessed(hb, t, handle[cur[t]]))
    /\ lol' = lol + 1
    /\ pc' = [pc EXCEPT ![t] = "dm_new"]
    /\ solo' = Interleave(t, solo[t])
    /\ UNCHANGED << astate, refcount, inner, handle, owner, view, cur,
                    old_count, newp, clones >>

\* Arcow::new(<the duplicate>)
DerefMutNew(t) ==
    /\ pc[t] = "dm_new"
    /\ LET a == Min(Unalloc)
       IN  /\ astate' = [astate EXCEPT ![a] = "live"]
           /\ refcount' = [refcount EXCEPT ![a] = 1]
           /\ inner' = [inner EXCEPT ![a] = tmp[t]]
           /\ newp' = [newp EXCEPT ![t] = a]
           /\ clones' = [clones EXCEPT ![a] = 0]
           /\ hb' = Track(Accessed(Forgotten(hb, a), t, a))
    /\ tmp' = [tmp EXCEPT ![t] = -1]
    /\ pc' = [pc EXCEPT ![t] = "dm_sub"]
    /\ solo' = Interleave(t, solo[t])
    /\ UNCHANGED << handle, owner, view, cur, old_count, lol, err >>

\* *self = <the new Arcow>: the handle now holds the new pointer and lends it
Repoint(t) ==
    /\ handle' = [handle EXCEPT ![cur[t]] = newp[t]]
    /\ view' = [view EXCEPT ![cur[t]] = "split"]
    /\ pc' = [pc EXCEPT ![t] = "idle"]
    /\ cur' = [cur EXCEPT ![t] = 0]
    /\ newp' = [newp EXCEPT ![t] = 0]
    /\ old_count' = [old_count EXCEPT ![t] = 0]
    /\ solo' = Interleave(t, solo[t])

\* *self = ...: Drop::drop of the old Arcow, its fetch_sub
DerefMutSub(t) ==
    /\ pc[t] = "dm_sub"
    /\ LET a == handle[cur[t]]
       IN  \E old \in LoadRefcount(a) :
             /\ refcount' = IF astate[a] = "live"
                            THEN [refcount EXCEPT ![a] = WrapSub(old)]
                            ELSE refcount
             /\ err' = Touch(a)
             /\ hb' = Track(Atomic(hb, t, a, DropOrdering))
             /\ IF LastReference(old)
                THEN /\ pc' = [pc EXCEPT ![t] = "dm_free"]
                     /\ old_count' = [old_count EXCEPT ![t] = old]
                     /\ solo' = Interleave(t, solo[t])
                     /\ UNCHANGED << handle, view, cur, newp >>
                ELSE Repoint(t)
    /\ UNCHANGED << astate, inner, owner, tmp, lol, clones >>

\* *self = ...: Drop::drop of the old Arcow, the release of its allocation
DerefMutFree(t) ==
    /\ pc[t] = "dm_free"
    /\ FreeVars(t, handle[cur[t]])
    /\ Repoint(t)
    /\ UNCHANGED << refcount, owner, tmp, clones >>

\* a store of v through the &mut T that deref_mut returned
Write(t, h, v) ==
    /\ pc[t] = "idle"
    /\ owner[h] = t /\ Live(h) /\ view[h] # "none"
    /\ LET a == handle[h]
       IN  /\ inner' = IF astate[a] = "live"
                       THEN [inner EXCEPT ![a] = v]
                       ELSE inner
           /\ err' = Touch(a) \cup (IF Racing(hb, t, a) # {}
                                    THEN {"race_write"} ELSE {})
           /\ hb' = Track(Accessed(hb, t, a))
    /\ view' = [view EXCEPT
                   ![h] = IF InPlace(h) THEN "inplace-w" ELSE "split-w"]
    /\ solo' = Interleave(t, FALSE)
    /\ UNCHANGED << astate, refcount, handle, owner, pc, cur, old_count, tmp,
                    newp, lol, clones >>

\* the &mut T goes out of scope
Release(t, h) ==
    /\ pc[t] = "idle"
    /\ owner[h] = t /\ Live(h) /\ view[h] # "none"
    /\ view' = [view EXCEPT ![h] = "none"]
    /\ solo' = Interleave(t, FALSE)
    /\ UNCHANGED << astate, refcount, inner, handle, owner, pc, cur,
                    old_count, tmp, newp, lol, err, clones, hb >>

\* a handle is moved to another thread ("You can freely send clones of
\* Arcow<T> to multiple threads")
Send(t, h, u) ==
    /\ pc[t] = "idle"
    /\ u # t
    /\ owner[h] = t /\ Live(h) /\ view[h] = "none"
    /\ owner' = [owner EXCEPT ![h] = u]
    /\ hb' = Track(Synced(hb, {t}, u))
    /\ solo' = Interleave(t, FALSE)
    /\ UNCHANGED << astate, refcount, inner, handle, view, pc, cur,
                    old_count, tmp, newp, lol, err, clones >>

Next ==
    \E t \in Threads :
        \/ \E v \in Values : New(t, v)
        \/ \E h \in Handles : CloneFetchAdd(t, h)
        \/ CloneReturn(t)
        \/ \E h \in Handles : Count(t, h)
        \/ \E h \in Handles : Deref(t, h)
        \/ \E h \in Handles : DerefMut(t, h)
        \/ DerefMutClone(t)
        \/ DerefMutNew(t)
        \/ DerefMutSub(t)
        \/ DerefMutFree(t)
        \/ \E h \in Handles : \E v \in Values : Write(t, h, v)
        \/ \E h \in Handles : Release(t, h)
        \/ \E h \in Handles : DropFetchSub(t, h)
        \/ DropFree(t)
        \/ \E h \in Handles : \E u \in Threads : Send(t, h, u)

Spec == Init /\ [][Next]_vars

\* ==== properties ============================================================

\* an operation of some thread is under way on allocation a
MidFlight(a) ==
    \E t \in Threads :
        /\ pc[t] # "idle"
        /\ handle[cur[t]] = a \/ newp[t] = a

Quiescent == \A t \in Threads : pc[t] = "idle"

Freeing(a) ==
    { t \in Threads : pc[t] \in {"dr_free", "dm_free"} /\ handle[cur[t]] = a }

\* C1: whenever no clone, drop or split is under way on an undestroyed
\* allocation, its counter equals the number of live handles that point at
\* it, and Arcow::count on each of these handles returns that number.
C1_CounterEqualsHandles ==
    \A a \in Addrs :
        (astate[a] = "live" /\ ~MidFlight(a)) =>
           /\ refcount[a] = Cardinality(HandlesOn(a))
           /\ \A h \in HandlesOn(a) : count(h) = {Cardinality(HandlesOn(a))}

\* nothing is under way; two threads each own a handle on one allocation and
\* count is 2 on both, after clones, a split and drops that destroyed the
\* allocation before it
C1_Witness ==
    /\ Quiescent
    /\ \E a \in Addrs : astate[a] = "freed"
    /\ \E h \in Handles : \E g \in Handles :
         /\ Live(h) /\ Live(g)
         /\ handle[g] = handle[h]
         /\ owner[g] # owner[h]
         /\ count(h) = {2} /\ count(g) = {2}

\* C2: an allocation is destroyed exactly when its counter goes from 1 to 0:
\* a destroyed allocation has counter 0, an undestroyed allocation with
\* counter 0 is about to be destroyed by exactly one operation, the operation
\* that destroys it is the one whose fetch_sub returned 1, and nothing is
\* destroyed twice.
C2_DestroyedExactlyAtZero ==
    /\ [](/\ "double_free" \notin err
          /\ \A a \in Addrs :
               /\ astate[a] = "freed" => refcount[a] = 0
               /\ Cardinality(Freeing(a)) <= 1
               /\ (astate[a] = "live" /\ refcount[a] = 0) =>
                      Cardinality(Freeing(a)) = 1)
    /\ [][\A a \in Addrs :
            (astate[a] = "live" /\ astate'[a] = "freed") =>
               \E t \in Freeing(a) :
                  /\ old_count[t] = 1
                  /\ refcount[a] = 0
                  /\ pc'[t] = "idle"]_vars

\* the split of a deref_mut took the counter of the old allocation from 1 to
\* 0, because the other thread dropped its handle meanwhile, and is about to
\* destroy it
C2_Witness ==
    \E t \in Threads :
        /\ pc[t] = "dm_free"
        /\ old_count[t] = 1
        /\ refcount[handle[cur[t]]] = 0
        /\ astate[handle[cur[t]]] = "live"

\* C3: while a handle lends the &mut T it got on the count == 1 branch of
\* deref_mut, no other handle points at its allocation, no operation is under
\* way on it, and its counter is 1.
C3_InPlaceIsExclusive ==
    \A h \in Handles :
        InPlace(h) =>
            /\ astate[handle[h]] = "live"
            /\ refcount[handle[h]] = 1
            /\ \A g \in Handles \ {h} : handle[g] # handle[h]
            /\ ~MidFlight(handle[h])

\* a handle lends its value in place, a store has gone through, and the
\* other thread is in the middle of destroying another allocation
C3_Witness ==
    \E h \in Handles :
        /\ view[h] = "inplace-w"
        /\ \E t \in Threads \ {owner[h]} : pc[t] = "dr_free"

\* the steps of thread t that belong to a deref_mut on b or store through it
MutationStep(t, b) ==
    \/ DerefMut(t, b)
    \/ /\ cur[t] = b
       /\ DerefMutClone(t) \/ DerefMutNew(t) \/ DerefMutSub(t) \/ DerefMutFree(t)
    \/ \E v \in Values : Write(t, b, v)

\* C4: a deref_mut on b and the stores through the &mut T it returns leave
\* every other handle on the allocation it pointed at, reading the value it
\* read before; the stored value is read through b.
C4_SplitIsolatesMutation ==
    [][/\ \A g \in Handles :
            (Live(g) /\ (handle'[g] # handle[g] \/ deref(g)' # deref(g))) =>
                \A b \in Handles \ {g} : \A t \in Threads :
                    ~ MutationStep(t, b)
       /\ \A b \in Handles :
            view[b] # "none" =>
                \A v \in Values : Write(owner[b], b, v) => deref(b)' = {v}]_vars

\* b has split off an allocation that another handle still points at, and
\* has stored a value that the other handle does not read
C4_Witness ==
    \E b \in Handles : \E g \in Handles \ {b} :
        /\ view[b] = "split-w"
        /\ Live(g) /\ view[g] = "none"
        /\ handle[g] # handle[b]
        /\ clones[handle[g]] = -1
        /\ deref(g) # deref(b)

\* C5: when N >= 2 handles share an allocation and one of them completes a
\* deref_mut with no step of another thread in between, count is 1 on that
\* handle and N-1 on each of the others.
C5_CountsAfterSplit ==
    [][\A t \in Threads : \A b \in Handles :
          (/\ pc[t] \in {"dm_sub", "dm_free"} /\ cur[t] = b
           /\ pc'[t] = "idle" /\ solo[t]) =>
             \E N \in 2 .. MaxHandles :
                /\ N = Cardinality(HandlesOn(handle[b]))
                /\ count(b)' = {1}
                /\ \A g \in HandlesOn(handle[b]) \ {b} : count(g)' = {N - 1}]_vars

\* a split has just completed undisturbed: count is 1 on the splitter and on
\* the handle left behind on the old allocation
C5_Witness ==
    \E t \in Threads : \E b \in Handles : \E g \in Handles \ {b} :
        /\ solo[t] /\ pc[t] = "idle"
        /\ owner[b] = t /\ view[b] = "split" /\ count(b) = {1}
        /\ Live(g) /\ handle[g] # handle[b]
        /\ clones[handle[g]] = -1
        /\ count(g) = {1}

\* C6: deref_mut on a handle whose count is 1 lends the value in place: no
\* allocation is made or released, no value is duplicated, the handle keeps
\* its pointer and the counter stays 1.
C6_InPlaceWhenUnique ==
    [][\A h \in Handles : \A t \in Threads \cap {owner[h]} :
          (count(h) = {1} /\ DerefMut(t, h)) =>
             /\ view'[h] = "inplace" /\ pc'[t] = "idle"
             /\ handle' = handle
             /\ astate' = astate
             /\ refcount' = refcount /\ refcount'[handle'[h]] = 1
             /\ inner' = inner
             /\ lol' = lol]_vars

\* a unique handle lends its value in place while another allocation is
\* live, and all the allocations there are were made by new
C6_Witness ==
    /\ \E h \in Handles : view[h] = "inplace"
    /\ \A a \in Addrs : astate[a] = "live" /\ refcount[a] = 1
    /\ lol = MaxAlloc

\* C7: from the construction of an allocation until the first drop or
\* deref_mut of one of its handles, after N completed clones there are N+1
\* handles and count on each of them is N+1.
C7_SharingIsCounted ==
    \A a \in Addrs :
        (astate[a] = "live" /\ clones[a] >= 0 /\ ~MidFlight(a)) =>
           /\ Cardinality(HandlesOn(a)) = clones[a] + 1
           /\ \A h \in HandlesOn(a) : count(h) = {clones[a] + 1}

\* every handle there can be is a clone of one fresh handle, and count is
\* their number on each
C7_Witness ==
    \E a \in Addrs :
        /\ clones[a] = MaxHandles - 1
        /\ ~MidFlight(a)
        /\ \A h \in Handles : handle[h] = a /\ count(h) = {MaxHandles}

\* C8: clone adds one to the counter of the source's allocation and returns
\* a handle with the source's pointer; it changes no other counter, no
\* value, no pointer of an existing handle, not the set of allocations and
\* not the number of T instances.
C8_CloneCopiesNoValue ==
    [][\A t \in Threads :
          /\ \A h \in Handles :
               (owner[h] = t /\ CloneFetchAdd(t, h)) =>
                  /\ refcount' = [refcount EXCEPT ![handle[h]] = @ + 1]
                  /\ handle' = handle
                  /\ inner' = inner /\ astate' = astate /\ lol' = lol
          /\ CloneReturn(t) =>
                  /\ \E g \in FreeSlots :
                        handle' = [handle EXCEPT ![g] = handle[cur[t]]]
                  /\ refcount' = refcount
                  /\ inner' = inner /\ astate' = astate /\ lol' = lol]_vars

\* a clone has completed after another allocation was destroyed: two
\* handles of two threads, counter 2, and still a single T
C8_Witness ==
    /\ Quiescent
    /\ lol = 1
    /\ \E a \in Addrs : astate[a] = "freed"
    /\ \E a \in Addrs :
         /\ clones[a] = 1
         /\ refcount[a] = 2 /\ Cardinality(HandlesOn(a)) = 2
         /\ \E h \in HandlesOn(a) : \E g \in HandlesOn(a) : owner[h] # owner[g]

LiveAllocs == { a \in Addrs : astate[a] = "live" }

\* C9: the external counter never falls below zero; it counts the
\* undestroyed allocations plus the duplicates not yet boxed, hence exactly
\* the undestroyed allocations whenever no operation is under way; and once
\* no handle is left it is 0 and no allocation is left.
C9_DestructionAccounting ==
    /\ "panic" \notin err
    /\ lol = Cardinality(LiveAllocs)
               + Cardinality({t \in Threads : tmp[t] # -1})
    /\ Quiescent => lol = Cardinality(LiveAllocs)
    /\ (Quiescent /\ \A h \in Handles : handle[h] = 0) =>
           (lol = 0 /\ LiveAllocs = {})

\* every allocation the heap has was made and destroyed, and no handle is left
C9_Witness ==
    /\ Quiescent
    /\ \A h \in Handles : handle[h] = 0
    /\ \A a \in Addrs : astate[a] = "freed"

\* C10: a store of v through h makes h read v; the value a handle reads
\* changes at no other step than a store through that handle; and the handle
\* clone returns reads what its source reads.  Hence h reads v after a write
\* of v, and a clone and its source read the same until one is written.
C10_ValueConsistency ==
    [][/\ \A h \in Handles : \A t \in Threads \cap {owner[h]} :
            (Live(h) /\ Live(h)') =>
               /\ view[h] # "none" =>
                     \A v \in Values : Write(t, h, v) => deref(h)' = {v}
               /\ deref(h)' # deref(h) => \E v \in Values : Write(t, h, v)
       /\ \A t \in Threads :
            CloneReturn(t) =>
               \A g \in FreeSlots : \A src \in Handles :
                  (handle'[g] # 0 /\ src = cur[t]) =>
                      deref(g)' = deref(src)']_vars

\* a store through h after a split is read back through h, while the handle
\* it was cloned from reads the other value
C10_Witness ==
    \E h \in Handles : \E g \in Handles \ {h} :
        /\ view[h] = "split-w" /\ view[g] = "none"
        /\ Live(g)
        /\ deref(h) = {1}
        /\ deref(g) = {0}

\* C11: deref changes no counter, no pointer and no value, makes and
\* releases no allocation, and yields the value of the allocation the handle
\* points at; it is there for every idle handle, shared or unique, without
\* a look at the counter.
C11_DerefIsPure ==
    /\ [](\A h \in Handles :
            (Live(h) /\ view[h] = "none" /\ pc[owner[h]] = "idle") =>
                ENABLED Deref(owner[h], h))
    /\ [][\A h \in Handles : \A t \in Threads \cap {owner[h]} :
            Deref(t, h) =>
               /\ deref(h) = {inner[handle[h]]}
               /\ deref(h)' = deref(h)
               /\ refcount' = refcount
               /\ handle' = handle
               /\ inner' = inner
               /\ astate' = astate
               /\ lol' = lol
               /\ view' = view /\ pc' = pc]_vars

\* a handle that shares its allocation with a handle of the other thread
\* can be dereferenced, and yields the value stored before the share
C11_Witness ==
    \E h \in Handles : \E g \in Handles \ {h} :
        /\ Live(h) /\ Live(g) /\ handle[g] = handle[h]
        /\ owner[g] # owner[h]
        /\ count(h) = {2}
        /\ ENABLED Deref(owner[h], h)
        /\ deref(h) = {1}

\* ---- two handles on one allocation ------------------------------------------
\* The state after let a = Arcow::new(v); let b = a.clone(); with b sent to
\* the second thread: allocation 1 has counter 2, thread 1 owns a, thread 2
\* owns b.  The heap ends at address top.
Shared(top) ==
    /\ \E v \in Values :
          inner = [a \in Store |-> IF a = 1 THEN v ELSE 0]
    /\ astate = [a \in Store |-> IF a = 1 THEN "live"
                                 ELSE IF a <= top THEN "unalloc" ELSE "absent"]
    /\ refcount = [a \in Store |-> IF a = 1 THEN 2 ELSE 0]
    /\ handle = [h \in Handles |-> IF h <= 2 THEN 1 ELSE 0]
    /\ owner = [h \in Handles |-> IF h <= 2 THEN h ELSE 0]
    /\ view = [h \in Handles |-> "none"]
    /\ pc = [t \in Threads |-> "idle"]
    /\ cur = [t \in Threads |-> 0]
    /\ old_count = [t \in Threads |-> 0]
    /\ tmp = [t \in Threads |-> -1]
    /\ newp = [t \in Threads |-> 0]
    /\ lol = 1
    /\ err = {}
    /\ solo = [t \in Threads |-> FALSE]
    /\ clones = [a \in Store |-> IF a = 1 THEN 1 ELSE -1]
    /\ hb = HbOff

\* room for a split of each of the two handles
ShareInit == Shared(MaxAlloc + 1)

\* each handle is asked for its &mut T once and written through
NextShare ==
    \E t \in Threads :
        \/ \E h \in Handles : DerefMut(t, h)
        \/ DerefMutClone(t)
        \/ DerefMutNew(t)
        \/ DerefMutSub(t)
        \/ DerefMutFree(t)
        \/ \E h \in Handles : \E v \in Values : Write(t, h, v)

SpecShare == ShareInit /\ [][NextShare]_vars

\* the duplications of a value made so far: the allocations made after the
\* first, and the duplicates not yet boxed
Duplications ==
    Cardinality({ a \in Addrs : astate[a] # "unalloc" }) - 1
        + Cardinality({ t \in Threads : tmp[t] # -1 })

\* C12 as the specification states it: across the deref_mut of the two
\* handles that share an allocation, concurrent or not, one duplication is
\* made, by the handle that mutates first, and the other handle writes in
\* place.
C12_OneDuplication ==
    /\ Duplications <= 1
    /\ (\A h \in 1 .. 2 : view[h] # "none") =>
          /\ Duplications = 1
          /\ \E h \in 1 .. 2 : InPlace(h) /\ handle[h] = 1

\* C12: a deref_mut of one of the two handles lends in place exactly when it
\* reads the counter after the split of the other handle has decremented it;
\* then one duplication is made in all and the allocation is kept.  When both
\* read the counter before either decrement, each handle duplicates: two
\* duplications, two new allocations, and the shared allocation is destroyed.
C12_DuplicationPerSplit ==
    /\ [](/\ Duplications <= 2
          /\ \A h \in 1 .. 2 :
               InPlace(h) =>
                  /\ handle[h] = 1 /\ astate[1] = "live"
                  /\ Duplications = 1
                  /\ \A g \in (1 .. 2) \ {h} : view[g] \in {"split", "split-w"}
          /\ (\A h \in 1 .. 2 : view[h] \in {"split", "split-w"}) =>
                  /\ Duplications = 2
                  /\ astate[1] = "freed"
                  /\ handle[1] # handle[2])
    /\ [][\A h \in 1 .. 2 : \A t \in Threads \cap {owner[h]} :
            DerefMut(t, h) =>
               /\ refcount[1] = 1 <=> view'[h] = "inplace"
               /\ refcount[1] = 2 <=> pc'[t] = "dm_clone"]_vars

\* the second handle read the counter after the split of the first: it has
\* written in place, one duplicate was made, and the handles read two values
C12_Witness ==
    \E h \in 1 .. 2 : \E g \in (1 .. 2) \ {h} :
        /\ view[h] = "inplace-w" /\ handle[h] = 1
        /\ view[g] = "split-w"
        /\ Duplications = 1
        /\ deref(h) # deref(g)

\* The clones, mutations and drops of two threads that start with a handle
\* each on one allocation: every other allocation there comes to be was made
\* by the split of a deref_mut.
NextSplit ==
    \E t \in Threads :
        \/ \E h \in Handles : CloneFetchAdd(t, h)
        \/ CloneReturn(t)
        \/ \E h \in Handles : DerefMut(t, h)
        \/ DerefMutClone(t)
        \/ DerefMutNew(t)
        \/ DerefMutSub(t)
        \/ DerefMutFree(t)
        \/ \E h \in Handles : \E v \in Values : Write(t, h, v)
        \/ \E h \in Handles : Release(t, h)
        \/ \E h \in Handles : DropFetchSub(t, h)
        \/ DropFree(t)

SplitInit == Shared(MaxAlloc)

SpecSplit == SplitInit /\ [][NextSplit]_vars

\* no operation is under way on handle h
AtRest(h) == \A t \in Threads : cur[t] # h

\* C13: a split leaves its handle with count 1; the count of a handle at
\* rest stays 1, and its pointer the same, over every step that is not the
\* start of a clone of that handle or its drop, whatever the other handles
\* do; and a deref_mut that reads 1 lends in place, with no allocation and
\* no duplicate.  Hence every deref_mut after a split is in place until the
\* handle is cloned.
C13_StaysUniqueAfterSplit ==
    [][\A h \in Handles :
          /\ (\E t \in Threads : /\ cur[t] = h /\ pc'[t] = "idle"
                                  /\ pc[t] \in {"dm_sub", "dm_free"}) =>
                 count(h)' = {1}
          /\ (/\ Live(h) /\ AtRest(h) /\ count(h) = {1}
              /\ Live(h)' /\ AtRest(h)') =>
                 (count(h)' = {1} /\ handle'[h] = handle[h])
          /\ \A t \in Threads \cap {owner[h]} :
                 (count(h) = {1} /\ DerefMut(t, h)) =>
                     /\ view'[h] = "inplace"
                     /\ astate' = astate /\ lol' = lol]_vars

\* a handle lends in place the allocation its own earlier split made, while
\* the other thread is in the middle of the drop that destroys the
\* allocation it split from
C13_Witness ==
    \E h \in Handles :
        /\ view[h] = "inplace"
        /\ handle[h] # 1
        /\ \E t \in Threads \ {owner[h]} :
              pc[t] = "dr_free" /\ handle[cur[t]] = 1

\* ---- the orderings of the atomic operations ----------------------------------
\* the empty heap, with the happens-before record kept
OrderInit ==
    /\ astate = [a \in Store |-> IF a <= MaxAlloc THEN "unalloc" ELSE "absent"]
    /\ refcount = [a \in Store |-> 0]
    /\ inner = [a \in Store |-> 0]
    /\ handle = [h \in Handles |-> 0]
    /\ owner = [h \in Handles |-> 0]
    /\ view = [h \in Handles |-> "none"]
    /\ pc = [t \in Threads |-> "idle"]
    /\ cur = [t \in Threads |-> 0]
    /\ old_count = [t \in Threads |-> 0]
    /\ tmp = [t \in Threads |-> -1]
    /\ newp = [t \in Threads |-> 0]
    /\ lol = 0
    /\ err = {}
    /\ solo = [t \in Threads |-> FALSE]
    /\ clones = [a \in Store |-> -1]
    /\ hb = HbOn

SpecOrder == OrderInit /\ [][Next]_vars

\* C14: the destruction of an allocation happens-after every earlier use of
\* its value through any handle: a thread that destroys it has acquired the
\* release decrements of the threads that used it.
C14_DestructionOrdered == "race_free" \notin err

\* the steps that are left of an operation at each position
Rank(p) ==
    CASE p = "idle" -> 0
      [] p \in {"cl_ret", "dr_free", "dm_free"} -> 1
      [] p = "dm_sub" -> 2
      [] p = "dm_new" -> 3
      [] p = "dm_clone" -> 4

\* the next step of the operation thread t is in
OwnStep(t) ==
    \/ CloneReturn(t)
    \/ DerefMutClone(t) \/ DerefMutNew(t) \/ DerefMutSub(t) \/ DerefMutFree(t)
    \/ DropFree(t)

\* C15: no operation waits for another thread and none retries: the next
\* step of a thread inside an operation can always be taken, whatever the
\* other threads are doing, and every step takes the operation strictly
\* nearer to its end, which is at most four steps after its first.
C15_NoWaiting ==
    /\ [](\A t \in Threads : pc[t] # "idle" => ENABLED OwnStep(t))
    /\ [][\A t \in Threads :
            /\ pc'[t] # pc[t] =>
                  (pc[t] = "idle" \/ Rank(pc'[t]) < Rank(pc[t]))
            /\ (pc[t] # "idle" /\ OwnStep(t)) => Rank(pc'[t]) < Rank(pc[t])]_vars

\* two threads are inside operations at once, and each can take its step
\* without the other moving
C15_Witness ==
    \E t \in Threads : \E u \in Threads \ {t} :
        /\ pc[t] # "idle" /\ pc[u] # "idle"
        /\ ENABLED OwnStep(t) /\ ENABLED OwnStep(u)

\* C16: when the other handles of the old allocation are dropped between
\* the count read of a deref_mut and its decrement, the decrement takes the
\* counter from 1 to 0 and the splitting thread, and no other, destroys the
\* old allocation, once; the handle ends on the new allocation with count 1.
C16_SplitDestroysOld ==
    /\ [](\A t \in Threads :
            pc[t] = "dm_free" =>
               /\ old_count[t] = 1
               /\ astate[handle[cur[t]]] = "live"
               /\ refcount[handle[cur[t]]] = 0
               /\ HandlesOn(handle[cur[t]]) = {cur[t]}
               /\ Freeing(handle[cur[t]]) = {t}
               /\ astate[newp[t]] = "live" /\ refcount[newp[t]] = 1)
    /\ [][\A t \in Threads :
            /\ (/\ pc[t] = "dm_sub" /\ refcount[handle[cur[t]]] = 1
                /\ DerefMutSub(t)) => pc'[t] = "dm_free"
            /\ (pc[t] = "dm_free" /\ pc'[t] = "idle") =>
                  \A b \in Handles : \A a \in Addrs :
                     (cur[t] = b /\ newp[t] = a) =>
                        /\ astate'[handle[b]] = "freed"
                        /\ "double_free" \notin err'
                        /\ lol' = lol - 1
                        /\ handle'[b] = a
                        /\ count(b)' = {1}
                        /\ HandlesOn(a)' = {b}]_vars

\* the other thread dropped its handle while the split was duplicating a
\* stored value: the splitter's decrement returned 1 and it is about to
\* destroy the old allocation, with the duplicate boxed in the new one
C16_Witness ==
    \E t \in Threads :
        /\ pc[t] = "dm_free"
        /\ Freeing(handle[cur[t]]) = {t}
        /\ \A h \in Handles \ {cur[t]} : handle[h] = 0
        /\ inner[handle[cur[t]]] = 1
        /\ inner[newp[t]] = 1 /\ refcount[newp[t]] = 1

\* C17: a split duplicates the value first, then makes the new allocation
\* with counter 1 from the duplicate, and only then takes its reference off
\* the old counter and repoints the handle.  Until that decrement the old
\* counter counts the splitting handle, so it is at least 1 and the old
\* allocation is neither destroyed nor about to be.
C17_SplitOrder ==
    /\ [](\A t \in Threads :
            pc[t] \in {"dm_clone", "dm_new", "dm_sub"} =>
               /\ astate[handle[cur[t]]] = "live"
               /\ refcount[handle[cur[t]]] >= 1
               /\ Freeing(handle[cur[t]]) = {}
               /\ pc[t] = "dm_clone" => (tmp[t] = -1 /\ newp[t] = 0)
               /\ pc[t] = "dm_new" => (tmp[t] # -1 /\ newp[t] = 0)
               /\ pc[t] = "dm_sub" =>
                     /\ newp[t] \notin {0, handle[cur[t]]}
                     /\ astate[newp[t]] = "live"
                     /\ refcount[newp[t]] = 1
                     /\ HandlesOn(newp[t]) = {})
    /\ [][\A t \in Threads : \A b \in Handles : \A a \in Addrs :
            (cur[t] = b /\ handle[b] = a /\ pc'[t] # pc[t]) =>
               /\ pc[t] = "dm_clone" =>
                     /\ pc'[t] = "dm_new"
                     /\ tmp'[t] = inner[a]
                     /\ astate' = astate /\ refcount' = refcount
                     /\ handle' = handle
               /\ pc[t] = "dm_new" =>
                     /\ pc'[t] = "dm_sub"
                     /\ astate[newp'[t]] = "unalloc"
                     /\ inner'[newp'[t]] = tmp[t]
                     /\ refcount'[a] = refcount[a]
                     /\ handle' = handle
               /\ pc[t] = "dm_sub" =>
                     /\ pc'[t] \in {"dm_free", "idle"}
                     /\ refcount'[a] = refcount[a] - 1
                     /\ pc'[t] = "idle" => handle'[b] = newp[t]
                     /\ pc'[t] = "dm_free" => handle'[b] = a]_vars

\* the other handle was dropped while the split was between its duplication
\* and its allocation: the old counter is 1, the splitter's own reference
C17_Witness ==
    \E t \in Threads :
        /\ pc[t] = "dm_new"
        /\ tmp[t] = 1
        /\ refcount[handle[cur[t]]] = 1
        /\ HandlesOn(handle[cur[t]]) = {cur[t]}

\* C18: no operation touches released storage: every handle points at an
\* undestroyed allocation, every operation under way works on one, and the
\* reads through a live handle return what its allocation holds.
C18_NoUseAfterFree ==
    /\ "use_after_free" \notin err
    /\ \A h \in Handles : handle[h] # 0 => astate[handle[h]] = "live"
    /\ \A t \in Threads : pc[t] # "idle" => astate[handle[cur[t]]] = "live"
    /\ \A h \in Handles :
          Live(h) => /\ count(h) = {refcount[handle[h]]}
                     /\ deref(h) = {inner[handle[h]]}

\* an allocation has been destroyed, and a thread is in the middle of a
\* clone of a handle on another allocation, which holds a stored value
C18_Witness ==
    /\ \E a \in Addrs : astate[a] = "freed"
    /\ \E t \in Threads :
          /\ pc[t] = "cl_ret"
          /\ astate[handle[cur[t]]] = "live"
          /\ deref(cur[t]) = {1}

\* C19: a store through the &mut T that deref_mut lent on its count == 1
\* branch happens-after every read of the value the other threads made
\* through the handles they have dropped since: the load of the counter in
\* deref_mut has acquired their release decrements.
C19_InPlaceWriteOrdered == "race_write" \notin err

\* ---- the counter at the end of its range ---------------------------------------
\* counter values next to both ends of the range of usize
WrapInputs == {1, 2, 3, Modulus - 3, Modulus - 2, Modulus - 1}

\* One handle on allocation 1, whose counter also counts the clones that
\* were leaked (std::mem::forget) and so will never be dropped.
WrapInit ==
    /\ \E c \in WrapInputs :
          refcount = [a \in Store |-> IF a = 1 THEN c ELSE 0]
    /\ \E v \in Values :
          inner = [a \in Store |-> IF a = 1 THEN v ELSE 0]
    /\ astate = [a \in Store |-> IF a = 1 THEN "live"
                                 ELSE IF a <= MaxAlloc THEN "unalloc"
                                 ELSE "absent"]
    /\ handle = [h \in Handles |-> IF h = 1 THEN 1 ELSE 0]
    /\ owner = [h \in Handles |-> IF h = 1 THEN 1 ELSE 0]
    /\ view = [h \in Handles |-> "none"]
    /\ pc = [t \in Threads |-> "idle"]
    /\ cur = [t \in Threads |-> 0]
    /\ old_count = [t \in Threads |-> 0]
    /\ tmp = [t \in Threads |-> -1]
    /\ newp = [t \in Threads |-> 0]
    /\ lol = 1
    /\ err = {}
    /\ solo = [t \in Threads |-> FALSE]
    /\ clones = [a \in Store |-> -1]
    /\ hb = HbOff

NextWrap ==
    \E t \in Threads :
        \/ \E h \in Handles : CloneFetchAdd(t, h)
        \/ CloneReturn(t)
        \/ \E h \in Handles : Count(t, h)
        \/ \E h \in Handles : DropFetchSub(t, h)
        \/ DropFree(t)
        \/ \E h \in Handles : \E u \in Threads : Send(t, h, u)

SpecWrap == WrapInit /\ [][NextWrap]_vars

\* C20: clone looks at no bound: it can be taken on every idle handle
\* whatever the counter holds, and its fetch_add leaves (old + 1) mod 2^w in
\* the counter of the allocation, which is 0 after the largest value.  (Once
\* the wrapped counter has let a drop free the allocation under the other
\* handles there is no counter left to add to: that clone is a use after
\* free.)
C20_CloneWraps ==
    /\ [](\A h \in Handles :
            (/\ Live(h) /\ view[h] = "none" /\ pc[owner[h]] = "idle"
             /\ HasFreeSlot) => ENABLED CloneFetchAdd(owner[h], h))
    /\ [][\A h \in Handles : \A t \in Threads \cap {owner[h]} :
            (CloneFetchAdd(t, h) /\ astate[handle[h]] = "live") =>
               /\ refcount'[handle[h]] = (refcount[handle[h]] + 1) % Modulus
               /\ refcount[handle[h]] = Modulus - 1 => refcount'[handle[h]] = 0
               /\ pc'[t] = "cl_ret"]_vars

\* a clone has wrapped the counter: two live handles point at an
\* allocation whose counter is 0
C20_Witness ==
    \E a \in Addrs :
        /\ astate[a] = "live"
        /\ refcount[a] = 0
        /\ Cardinality(HandlesOn(a)) = 2
        /\ \A h \in HandlesOn(a) : count(h) = {0}

====
